---- MODULE Spec2Model ----
(***************************************************************************)
(* Bullet journal: the entry model (entry.py), the JSON codec and file     *)
(* repository (persistence.py), the CLI session (app.py) and the journal   *)
(* screen (screens.py), as a state machine.                                *)
(*                                                                         *)
(* Time is counted in clock ticks; a calendar day has TicksPerDay ticks.   *)
(* Day 0 is Monday 2026-11-30, day 1 is 2026-12-01.  The glyphs of         *)
(* TaskStatus are written in ASCII: "." INCOMPLETE, "x" COMPLETE,          *)
(* ">" MIGRATED, "<" SCHEDULED, "-" IRRELEVANT.                            *)
(***************************************************************************)
EXTENDS Integers, Sequences, FiniteSets, TLC

VARIABLES
    file,       \* the snapshot file: [kind, items]
    entries,    \* the collection held in memory (self.entries)
    pc,         \* "off" | "cli" | "tui" (a session runs) | "exited" |
                \* "crashed"; "repo" and "api" for direct callers
    now,        \* the wall clock, in ticks
    shown,      \* the list on screen, as positions of `entries`: the rows of
                \* JournalScreen's ListView, or of the CLI's last spread
    filter_visible, \* JournalScreen: the filter container is visible
    ret,        \* the outcome last reported: [op, status, val]
    loaded,     \* the load_entries call just made: [from, raised, entries, saved]
    saved,      \* the last save_entries call: [done, entries]
    sessions    \* number of sessions started so far

vars == <<file, entries, pc, now, shown, filter_visible, ret, loaded, saved,
          sessions>>

----------------------------------------------------------------------------
(* Bounds *)

TicksPerDay == 2
MaxNow      == 4
MaxEntries  == 6
MaxSessions == 2

----------------------------------------------------------------------------
(* Python values *)

Str(s) == [ty |-> "str", v |-> s]

Signifier_PRIORITY    == [ty |-> "Signifier", v |-> "*"]
Signifier_INSPIRATION == [ty |-> "Signifier", v |-> "!"]
Signifier_EXPLORE     == [ty |-> "Signifier", v |-> "?"]
Signifier_NONE        == [ty |-> "Signifier", v |-> ""]

Signifier == {Signifier_PRIORITY, Signifier_INSPIRATION, Signifier_EXPLORE,
              Signifier_NONE}

TaskStatus_INCOMPLETE == [ty |-> "TaskStatus", v |-> "."]
TaskStatus_COMPLETE   == [ty |-> "TaskStatus", v |-> "x"]
TaskStatus_MIGRATED   == [ty |-> "TaskStatus", v |-> ">"]
TaskStatus_SCHEDULED  == [ty |-> "TaskStatus", v |-> "<"]
TaskStatus_IRRELEVANT == [ty |-> "TaskStatus", v |-> "-"]

TaskStatus == {TaskStatus_INCOMPLETE, TaskStatus_COMPLETE, TaskStatus_MIGRATED,
               TaskStatus_SCHEDULED, TaskStatus_IRRELEVANT}

\* Enum.value
EnumValue(o) == o.v

----------------------------------------------------------------------------
(* Calendar: date / datetime and their ISO strings *)

MaxDay == MaxNow \div TicksPerDay

Days == 0 .. (MaxDay + 1)

Pad2(n) == IF n < 10 THEN "0" \o ToString(n) ELSE ToString(n)

\* datetime.date(): the calendar day of a timestamp
DateOf(ts) == ts \div TicksPerDay

\* date.year, date.month
YearOf(d) == 2026
MonthOf(d) == IF d = 0 THEN 11 ELSE 12

\* date.isoformat(): "YYYY-MM-DD"
date_isoformat(d) ==
    IF d = 0 THEN "2026-11-30" ELSE "2026-12-" \o Pad2(d)

IsIsoDate(s) == \E d \in Days : date_isoformat(d) = s

\* date.fromisoformat() of a well-formed date string
date_fromisoformat(s) == CHOOSE d \in Days : date_isoformat(d) = s

\* datetime.isoformat(): "YYYY-MM-DDTHH:MM:SS"
datetime_isoformat(ts) ==
    date_isoformat(DateOf(ts)) \o "T" \o Pad2(ts % TicksPerDay) \o ":00:00"

Timestamps == 0 .. (MaxNow + 1)

IsIsoDatetime(s) == \E ts \in Timestamps : datetime_isoformat(ts) = s

\* datetime.fromisoformat() of a well-formed string (ValueError otherwise)
datetime_fromisoformat(s) ==
    CHOOSE ts \in Timestamps : datetime_isoformat(ts) = s

----------------------------------------------------------------------------
(* entry.py: the dataclasses.  An entry is its class and its instance      *)
(* attributes; `type` is a class attribute of the four variants (a field   *)
(* with init=False and a default) and an instance attribute of the base.   *)

NoteEntry(content, signifier, timestamp) ==
    [cls |-> "NoteEntry", content |-> content, signifier |-> signifier,
     timestamp |-> timestamp]

TaskEntry(content, signifier, timestamp, status) ==
    [cls |-> "TaskEntry", content |-> content, signifier |-> signifier,
     timestamp |-> timestamp, status |-> status]

EventEntry(content, signifier, timestamp, location, is_completed) ==
    [cls |-> "EventEntry", content |-> content, signifier |-> signifier,
     timestamp |-> timestamp, location |-> location,
     is_completed |-> is_completed]

HabitEntry(content, signifier, timestamp, frequency, completed_dates) ==
    [cls |-> "HabitEntry", content |-> content, signifier |-> signifier,
     timestamp |-> timestamp, frequency |-> frequency,
     completed_dates |-> completed_dates]

JournalEntry(content, type, signifier, timestamp) ==
    [cls |-> "JournalEntry", content |-> content, type |-> type,
     signifier |-> signifier, timestamp |-> timestamp]

\* Optional[str]: None is the empty sequence, a string s is <<s>>
None == <<>>
Some(s) == <<s>>

\* entry.type
EntryType(e) ==
    CASE e.cls = "NoteEntry"  -> "Note"
      [] e.cls = "TaskEntry"  -> "Task"
      [] e.cls = "EventEntry" -> "Event"
      [] e.cls = "HabitEntry" -> "Habit"
      [] OTHER                -> e.type

\* isinstance(entry, TaskEntry) and its siblings
IsTask(e)  == e.cls = "TaskEntry"
IsEvent(e) == e.cls = "EventEntry"
IsHabit(e) == e.cls = "HabitEntry"
IsNote(e)  == e.cls = "NoteEntry"

----------------------------------------------------------------------------
(* persistence.py: the codec.  A JSON record is a function from its keys   *)
(* to JSON values: strings, booleans, null / string as <<>> / <<s>> for    *)
(* "location", and a list of strings for "completed_dates".                *)

\* json's encoding of one attribute value: CustomEncoder.default turns a
\* datetime into its ISO string and an Enum into its value; a str, a bool,
\* None and a list of str are JSON values already
JsonValue(k, v) ==
    CASE k = "timestamp"               -> datetime_isoformat(v)
      [] k \in {"signifier", "status"} -> IF v.ty = "str" THEN v.v
                                                          ELSE EnumValue(v)
      [] OTHER                         -> v

\* CustomEncoder.default on a JournalEntry: o.__dict__.copy() plus "_type"
CustomEncoder_default(o) ==
    [k \in ((DOMAIN o) \ {"cls"}) \cup {"_type"} |->
        IF k = "_type" THEN o.cls ELSE JsonValue(k, o[k])]

\* json.loads of one JSON object, before object_hook: the strings of the
\* enum-valued keys become Python str values
PyDict(rec) ==
    [k \in DOMAIN rec |->
        IF k \in {"signifier", "status"} THEN Str(rec[k]) ELSE rec[k]]

\* class_map
class_map == {"TaskEntry", "EventEntry", "NoteEntry", "HabitEntry",
              "JournalEntry"}

\* {f.name for f in dataclass_fields(entry_class)}
valid_keys(cls) ==
    {"content", "type", "signifier", "timestamp"} \cup
    (CASE cls = "TaskEntry"  -> {"status"}
       [] cls = "EventEntry" -> {"location", "is_completed"}
       [] cls = "HabitEntry" -> {"frequency", "completed_dates"}
       [] OTHER              -> {})

\* the keyword parameters of the generated __init__: "type" is one only for
\* the base class (the variants declare it init=False)
init_params(cls) ==
    IF cls = "JournalEntry" THEN valid_keys(cls) ELSE valid_keys(cls) \ {"type"}

\* the parameters without a default
init_required(cls) ==
    IF cls = "JournalEntry" THEN {"content", "type"} ELSE {"content"}

\* entry_class(**kw) raises TypeError
InitTypeError(cls, kw) ==
    \/ \E k \in DOMAIN kw : k \notin init_params(cls)
    \/ \E k \in init_required(cls) : k \notin DOMAIN kw

\* the field defaults of the dataclasses
FieldDefault(k, clock) ==
    CASE k = "signifier"       -> Signifier_NONE
      [] k = "timestamp"       -> clock
      [] k = "status"          -> TaskStatus_INCOMPLETE
      [] k = "location"        -> None
      [] k = "is_completed"    -> FALSE
      [] k = "frequency"       -> "Daily"
      [] k = "completed_dates" -> <<>>

\* entry_class(**kw), when it raises no TypeError
New(cls, kw, clock) ==
    [k \in init_params(cls) \cup {"cls"} |->
        IF k = "cls" THEN cls
        ELSE IF k \in DOMAIN kw THEN kw[k] ELSE FieldDefault(k, clock)]

\* Signifier(value): the member with that value, ValueError when none
IsSignifierValue(s) == \E m \in Signifier : m.v = s
SignifierOf(s) == CHOOSE m \in Signifier : m.v = s

\* the conversion of data["signifier"] in _decode_entry
DecodeSignifier(v) ==
    IF IsSignifierValue(v.v) THEN SignifierOf(v.v) ELSE Signifier_NONE

\* the conversion of data["timestamp"] in _decode_entry
DecodeTimestamp(s, clock) ==
    IF IsIsoDatetime(s) THEN datetime_fromisoformat(s) ELSE clock

\* the conversions _decode_entry applies to the popped dict, by key
DecodeField(k, v, clock) ==
    CASE k = "timestamp" -> DecodeTimestamp(v, clock)
      [] k = "signifier" -> DecodeSignifier(v)
      [] OTHER           -> v

\* _decode_entry with "EventEntry" mapped to TaskEntry in class_map
_decode_entry_events_as_tasks(rec, clock) ==
    LET data == PyDict(rec) IN
    IF "_type" \notin DOMAIN data
    THEN [entry |-> FALSE, value |-> <<>>]
    ELSE LET entry_type == data["_type"]
             entry_class == IF entry_type = "EventEntry" THEN "TaskEntry"
                                                         ELSE entry_type
             popped == [k \in (DOMAIN data) \ {"_type"} |->
                            DecodeField(k, data[k], clock)]
             filtered_data ==
                 [k \in (DOMAIN popped) \cap valid_keys(entry_class) |->
                      popped[k]]
         IN  IF entry_type \in class_map
                /\ ~InitTypeError(entry_class, filtered_data)
             THEN [entry |-> TRUE,
                   value |-> New(entry_class, filtered_data, clock)]
             ELSE [entry |-> FALSE, value |-> <<>>]

\* FileJournalRepository._decode_entry, the object_hook: [entry, value],
\* entry = TRUE when a JournalEntry is returned, FALSE when the dict is
\* returned as it is (load_entries then leaves it out)
_decode_entry(rec, clock) ==
    LET data == PyDict(rec) IN
    IF "_type" \notin DOMAIN data
    THEN [entry |-> FALSE, value |-> <<>>]
    ELSE LET entry_type == data["_type"]
             popped == [k \in (DOMAIN data) \ {"_type"} |->
                            DecodeField(k, data[k], clock)]
             filtered_data ==
                 [k \in (DOMAIN popped) \cap valid_keys(entry_type) |->
                      popped[k]]
         IN  IF entry_type \in class_map
                /\ ~InitTypeError(entry_type, filtered_data)
             THEN [entry |-> TRUE,
                   value |-> New(entry_type, filtered_data, clock)]
             ELSE [entry |-> FALSE, value |-> <<>>]

----------------------------------------------------------------------------
(* persistence.py: the repository.  The file is [kind, items]:             *)
(*   "missing"  no file            "empty"   a file of zero bytes          *)
(*   "invalid"  not valid JSON     "scalar"  a number, string or null      *)
(*   "object"   one JSON object (items[1]) at the top level                *)
(*   "unreadable" a file that open() fails on (OSError)                    *)
(*   "list"     a JSON array of the objects items[1..]                     *)

File(kind, items) == [kind |-> kind, items |-> items]

\* [e for e in data if isinstance(e, JournalEntry)] over the decoded array
DecodedEntries(items, clock) ==
    LET dec == [i \in 1 .. Len(items) |-> _decode_entry(items[i], clock)]
        keep == SelectSeq(dec, LAMBDA r : r.entry)
    IN  [i \in 1 .. Len(keep) |-> keep[i].value]

\* the body of the try block of load_entries: [exc, entries]
LoadBody(f, clock) ==
    CASE f.kind = "unreadable" -> [exc |-> "OSError", entries |-> <<>>]
      [] f.kind = "empty"   -> [exc |-> "none", entries |-> <<>>]
      [] f.kind = "invalid" -> [exc |-> "JSONDecodeError", entries |-> <<>>]
      [] f.kind = "scalar"  -> [exc |-> "TypeError", entries |-> <<>>]
      [] f.kind = "object"  ->
            IF _decode_entry(f.items[1], clock).entry
            THEN [exc |-> "TypeError", entries |-> <<>>]
            ELSE [exc |-> "none", entries |-> <<>>]
      [] f.kind = "list"    ->
            [exc |-> "none", entries |-> DecodedEntries(f.items, clock)]

\* load_entries without its last handler, `except Exception`
load_entries_uncaught(f, clock) ==
    IF f.kind = "missing"
    THEN [raised |-> FALSE, entries |-> <<>>]
    ELSE LET r == LoadBody(f, clock) IN
         CASE r.exc = "none"            -> [raised |-> FALSE, entries |-> r.entries]
           [] r.exc = "JSONDecodeError" -> [raised |-> FALSE, entries |-> <<>>]
           [] OTHER                     -> [raised |-> TRUE, entries |-> <<>>]

\* FileJournalRepository.load_entries: [raised, entries]
load_entries(f, clock) ==
    IF f.kind = "missing"
    THEN [raised |-> FALSE, entries |-> <<>>]
    ELSE LET r == LoadBody(f, clock) IN
         CASE r.exc = "none"            -> [raised |-> FALSE, entries |-> r.entries]
           [] r.exc = "JSONDecodeError" -> [raised |-> FALSE, entries |-> <<>>]
           [] OTHER                     -> [raised |-> FALSE, entries |-> <<>>]

\* a save that leaves out the last entry of the collection
save_entries_but_last(es) ==
    File("list", [i \in 1 .. (Len(es) - 1) |-> CustomEncoder_default(es[i])])

\* FileJournalRepository.save_entries: the file written
save_entries(es) ==
    File("list", [i \in 1 .. Len(es) |-> CustomEncoder_default(es[i])])

\* what the file system does to a save_entries call: nothing wrong, open()
\* fails, or a write fails after open(..., "w") has truncated the file,
\* before anything is written or part of the way
SaveFaults == {"none", "open", "truncated", "partial"}

\* save_entries logging the error without raising it again
save_entries_io_swallowed(f, es, fault) ==
    CASE fault = "none"      -> [raised |-> FALSE, file |-> save_entries(es)]
      [] fault = "open"      -> [raised |-> FALSE, file |-> f]
      [] fault = "truncated" -> [raised |-> FALSE, file |-> File("empty", <<>>)]
      [] fault = "partial"   -> [raised |-> FALSE, file |-> File("invalid", <<>>)]

\* FileJournalRepository.save_entries on the file f under a fault:
\* [raised, file], the except clause raising the error again
save_entries_io(f, es, fault) ==
    CASE fault = "none"      -> [raised |-> FALSE, file |-> save_entries(es)]
      [] fault = "open"      -> [raised |-> TRUE, file |-> f]
      [] fault = "truncated" -> [raised |-> TRUE, file |-> File("empty", <<>>)]
      [] fault = "partial"   -> [raised |-> TRUE, file |-> File("invalid", <<>>)]

----------------------------------------------------------------------------
(* entry.py: the operations of the entry model *)

\* complete as a toggle: a completed task is set back to incomplete
TaskEntry_complete_toggle(e) ==
    [e EXCEPT !.status = IF @ = TaskStatus_COMPLETE THEN TaskStatus_INCOMPLETE
                         ELSE TaskStatus_COMPLETE]

\* TaskEntry.complete
TaskEntry_complete(e) == [e EXCEPT !.status = TaskStatus_COMPLETE]

\* migrate leaving a completed task as it is
TaskEntry_migrate_open_only(e) ==
    IF e.status = TaskStatus_COMPLETE THEN e
    ELSE [e EXCEPT !.status = TaskStatus_MIGRATED]

\* migrate clearing the signifier as well
TaskEntry_migrate_unflagged(e) ==
    [e EXCEPT !.status = TaskStatus_MIGRATED, !.signifier = Signifier_NONE]

\* TaskEntry.migrate
TaskEntry_migrate(e) == [e EXCEPT !.status = TaskStatus_MIGRATED]

\* EventEntry.complete
EventEntry_complete(e) == [e EXCEPT !.is_completed = TRUE]

\* x in list
Contains(seq, x) == \E i \in 1 .. Len(seq) : seq[i] = x

\* list.sort(reverse=True) of ISO date strings: a stable insertion, the
\* string order of "YYYY-MM-DD" being the order of the dates
RECURSIVE SortDatesDesc(_)
SortDatesDesc(seq) ==
    IF seq = <<>> THEN <<>>
    ELSE LET n == Len(seq)
             x == seq[n]
             rest == SortDatesDesc(SubSeq(seq, 1, n - 1))
             pos == Cardinality({j \in 1 .. Len(rest) :
                        date_fromisoformat(rest[j]) >= date_fromisoformat(x)})
         IN  SubSeq(rest, 1, pos) \o <<x>> \o SubSeq(rest, pos + 1, Len(rest))

\* mark_complete without the membership test
HabitEntry_mark_complete_always(e, completion_date) ==
    [e EXCEPT !.completed_dates =
                  SortDatesDesc(Append(e.completed_dates,
                                       date_isoformat(completion_date)))]

\* HabitEntry.mark_complete(completion_date)
HabitEntry_mark_complete(e, completion_date) ==
    LET date_str == date_isoformat(completion_date) IN
    IF ~Contains(e.completed_dates, date_str)
    THEN [e EXCEPT !.completed_dates =
                       SortDatesDesc(Append(e.completed_dates, date_str))]
    ELSE e

\* HabitEntry.is_completed_today
is_completed_today(e, today) ==
    Contains(e.completed_dates, date_isoformat(today))

\* the for loop of get_streak over sorted_dates[i..]
RECURSIVE StreakLoop(_, _, _, _)
StreakLoop(sorted_dates, i, streak, expected_date) ==
    IF i > Len(sorted_dates) THEN streak
    ELSE LET completed == sorted_dates[i] IN
         IF completed = expected_date
         THEN StreakLoop(sorted_dates, i + 1, streak + 1, expected_date - 1)
         ELSE IF completed < expected_date
         THEN IF completed # expected_date - 1
              THEN streak
              ELSE StreakLoop(sorted_dates, i + 1, streak + 1,
                              expected_date - 1)
         ELSE StreakLoop(sorted_dates, i + 1, streak, expected_date)

\* get_streak counting back from the latest completed date, not from today
get_streak_from_latest(e, today) ==
    IF e.completed_dates = <<>> THEN 0
    ELSE LET srt == SortDatesDesc(e.completed_dates)
             sorted_dates == [i \in 1 .. Len(srt) |-> date_fromisoformat(srt[i])]
         IN  StreakLoop(sorted_dates, 1, 0, sorted_dates[1])

\* HabitEntry.get_streak, date.today() being `today`
get_streak(e, today) ==
    IF e.completed_dates = <<>> THEN 0
    ELSE LET srt == SortDatesDesc(e.completed_dates)
             sorted_dates == [i \in 1 .. Len(srt) |-> date_fromisoformat(srt[i])]
         IN  StreakLoop(sorted_dates, 1, 0, today)

----------------------------------------------------------------------------
(* app.py: the CLI session *)

\* the order sorted(..., key=lambda e: e.timestamp, reverse=True) gives the
\* positions of es: a stable sort, equal timestamps keep their order
RECURSIVE OrderDesc(_, _)
OrderDesc(es, n) ==
    IF n = 0 THEN <<>>
    ELSE LET rest == OrderDesc(es, n - 1)
             pos == Cardinality({j \in 1 .. Len(rest) :
                        es[rest[j]].timestamp >= es[n].timestamp})
         IN  SubSeq(rest, 1, pos) \o <<n>> \o SubSeq(rest, pos + 1, Len(rest))

\* BulletJournalCLI._sort_entries
_sort_entries(es) ==
    LET ord == OrderDesc(es, Len(es)) IN [i \in 1 .. Len(es) |-> es[ord[i]]]

\* BulletJournalCLI._create_sample_entries
_create_sample_entries(clock) ==
    LET today == clock
        yesterday == clock - TicksPerDay
    IN  << NoteEntry("Welcome", Signifier_INSPIRATION, today),
           TaskEntry("Task: Press X or M", Signifier_PRIORITY, today,
                     TaskStatus_INCOMPLETE),
           EventEntry("Event: Press C", Signifier_NONE, today,
                      Some("Demo Location"), FALSE),
           HabitEntry("Habit: Press H", Signifier_NONE, yesterday, "Daily",
                      <<>>),
           NoteEntry("View your Spreads", Signifier_EXPLORE, yesterday - 1) >>

\* __init__ adding the samples to whatever was loaded
NewSession_seeds_always(ld, clock) ==
    _sort_entries(ld.entries \o _create_sample_entries(clock))

\* BulletJournalCLI.__init__: the collection of a new session
NewSession(ld, clock) ==
    _sort_entries(IF ld.entries = <<>> THEN _create_sample_entries(clock)
                                       ELSE ld.entries)

\* display_journal / _format_entry raise AttributeError on a Task whose
\* status is a str: entry.status.value
DisplayRaises(es) ==
    \E i \in 1 .. Len(es) : IsTask(es[i]) /\ es[i].status.ty = "str"

\* the head of the loop of run(): _sort_entries, then display_journal
LoopPc(es) == IF DisplayRaises(_sort_entries(es)) THEN "crashed" ELSE "cli"

Ret(op, status, val) == [op |-> op, status |-> status, val |-> val]

\* nothing reported
NoRet == Ret("none", "none", 0)

----------------------------------------------------------------------------
(* The snapshot files a first session may find *)

GoodNote  == CustomEncoder_default(NoteEntry("n", Signifier_EXPLORE, 1))
GoodEvent == CustomEncoder_default(
                 EventEntry("e", Signifier_NONE, 2, None, TRUE))
GoodHabit == CustomEncoder_default(
                 HabitEntry("h", Signifier_PRIORITY, 0, "Daily",
                            <<date_isoformat(1), date_isoformat(0)>>))
GoodTask  == CustomEncoder_default(
                 TaskEntry("t", Signifier_PRIORITY, 2, TaskStatus_SCHEDULED))

\* records a hand-edited or foreign file may hold
BadStatus    == [GoodTask EXCEPT !.status = "zz"]
BadSignifier == [GoodNote EXCEPT !.signifier = "#"]
BadDate      == [GoodNote EXCEPT !.timestamp = "yesterday"]
NoContent    == [_type |-> "NoteEntry", signifier |-> "*"]
TypeKey      == [_type |-> "NoteEntry", content |-> "n", type |-> "Note"]
UnknownClass == [_type |-> "MemoEntry", content |-> "n"]
BaseRecord   == [_type |-> "JournalEntry", content |-> "n", type |-> "Note"]
PlainObject  == [content |-> "n"]

OffendingRecords ==
    {BadStatus, BadSignifier, BadDate, NoContent, TypeKey, UnknownClass}

InitFiles ==
    {File("missing", <<>>), File("empty", <<>>), File("invalid", <<>>),
     File("scalar", <<>>), File("unreadable", <<>>),
     File("object", <<PlainObject>>),
     File("object", <<BaseRecord>>), File("list", <<>>),
     File("list", <<GoodNote, GoodHabit>>)}
    \cup {File("list", <<GoodNote, r, GoodEvent>>) : r \in OffendingRecords}

----------------------------------------------------------------------------
(* The state machine *)

NoLoad == [from |-> File("missing", <<>>), raised |-> FALSE, entries |-> <<>>,
           saved |-> [done |-> FALSE, entries |-> <<>>]]

Init ==
    /\ file = File("missing", <<>>)
    /\ entries = <<>>
    /\ pc = "off"
    /\ now = TicksPerDay + 1
    /\ shown = <<>>
    /\ filter_visible = FALSE
    /\ ret = NoRet
    /\ loaded = NoLoad
    /\ saved = [done |-> FALSE, entries |-> <<>>]
    /\ sessions = 0

Stopped == pc \in {"off", "exited", "crashed"}

\* the load_entries call of a starting session
Load == LET r == load_entries(file, now) IN
        [from |-> file, raised |-> r.raised, entries |-> r.entries,
         saved |-> saved]

\* python -m journal_app.app: BulletJournalCLI() and the first pass of
\* run() up to the menu prompt
StartCLI ==
    /\ Stopped
    /\ sessions < MaxSessions
    /\ sessions' = sessions + 1
    /\ loaded' = Load
    /\ IF Load.raised
       THEN /\ pc' = "crashed"
            /\ entries' = <<>>
       ELSE /\ entries' = _sort_entries(NewSession(Load, now))
            /\ pc' = LoopPc(entries')
    /\ ret' = Ret("start", IF pc' = "cli" THEN "ok" ELSE "raised", 0)
    /\ UNCHANGED <<file, now, shown, filter_visible, saved>>

\* the wall clock advances
Tick ==
    /\ now < MaxNow
    /\ now' = now + 1
    /\ ret' = NoRet
    /\ loaded' = NoLoad
    /\ UNCHANGED <<file, entries, pc, shown, filter_visible, saved, sessions>>

\* what follows every action of the CLI menu: the next pass of the loop
CliLoop(es) ==
    /\ entries' = _sort_entries(es)
    /\ pc' = LoopPc(es)
    /\ shown' = <<>>
    /\ loaded' = NoLoad
    /\ UNCHANGED <<file, filter_visible, saved, sessions>>

\* the signifier chosen by add_entry and NewEntryScreen:
\* next((s for s in Signifier if s.value == sig_input), Signifier.NONE)
ChosenSignifier(sig_input) ==
    IF IsSignifierValue(sig_input) THEN SignifierOf(sig_input)
                                   ELSE Signifier_NONE

\* the entry add_entry builds from the prompts, timestamped `clock`
PromptedEntry(entry_type, content, sig_input, extra, clock) ==
    CASE entry_type = "N" -> NoteEntry(content, ChosenSignifier(sig_input), clock)
      [] entry_type = "T" -> TaskEntry(content, ChosenSignifier(sig_input), clock,
                                       TaskStatus_INCOMPLETE)
      [] entry_type = "E" -> EventEntry(content, ChosenSignifier(sig_input), clock,
                                        IF extra = "" THEN None ELSE Some(extra),
                                        FALSE)
      [] entry_type = "H" -> HabitEntry(content, ChosenSignifier(sig_input), clock,
                                        extra, <<>>)

\* what the user types at the prompts of add_entry: the type, the content,
\* the signifier, and the location or frequency
AddInputs ==
    {<<"N", "milk", "*", "">>, <<"T", "milk", "#", "">>,
     <<"Z", "milk", "*", "">>, <<"N", "", "*", "">>}

\* BulletJournalCLI.add_entry (menu action A)
add_entry ==
    /\ pc = "cli"
    /\ now < MaxNow
    /\ Len(entries) < MaxEntries
    /\ \E inp \in AddInputs :
          LET entry_type == inp[1]
              content == inp[2]
              sig_input == inp[3]
              extra == inp[4]
          IN
          IF entry_type \notin {"N", "T", "E", "H"} \/ content = ""
          THEN /\ now' = now
               /\ ret' = Ret("add_entry", "rejected", 0)
               /\ CliLoop(entries)
          ELSE /\ now' = now + 1
               /\ ret' = Ret("add_entry", "ok", 0)
               /\ CliLoop(Append(entries,
                      PromptedEntry(entry_type, content, sig_input, extra, now')))

\* _get_entry_by_index taking the number typed as a 0-based index
_get_entry_by_index_0based(es, index_input, required_type) ==
    IF index_input = <<>>
    THEN [pos |-> 0, status |-> "not_found"]
    ELSE LET index == index_input[1] IN
         IF 0 <= index /\ index < Len(es)
         THEN IF es[index + 1].cls = required_type
              THEN [pos |-> index + 1, status |-> "ok"]
              ELSE [pos |-> 0, status |-> "wrong_type"]
         ELSE [pos |-> 0, status |-> "not_found"]

\* BulletJournalCLI._get_entry_by_index: [pos, status], pos the position of
\* the entry returned, 0 for None ("not_found": invalid input or invalid
\* index; "wrong_type": an entry of another class).  The input typed is
\* <<n>> for the number n, <<>> for a text that int() rejects.
_get_entry_by_index(es, index_input, required_type) ==
    IF index_input = <<>>
    THEN [pos |-> 0, status |-> "not_found"]
    ELSE LET index == index_input[1] - 1 IN
         IF 0 <= index /\ index < Len(es)
         THEN IF es[index + 1].cls = required_type
              THEN [pos |-> index + 1, status |-> "ok"]
              ELSE [pos |-> 0, status |-> "wrong_type"]
         ELSE [pos |-> 0, status |-> "not_found"]

IndexInputs == {<<>>} \cup {<<n>> : n \in 0 .. (Len(entries) + 1)}

\* BulletJournalCLI.complete_task (menu action X), the index typed given
complete_task_at(index_input) ==
    LET r == _get_entry_by_index(entries, index_input, "TaskEntry") IN
    /\ pc = "cli"
    /\ ret' = Ret("complete_task", r.status, 0)
    /\ CliLoop(IF r.pos = 0 THEN entries
               ELSE [entries EXCEPT ![r.pos] = TaskEntry_complete(@)])
    /\ UNCHANGED now

complete_task == \E index_input \in IndexInputs : complete_task_at(index_input)

\* BulletJournalCLI.migrate_task (menu action M)
migrate_task_at(index_input) ==
    LET r == _get_entry_by_index(entries, index_input, "TaskEntry") IN
    /\ pc = "cli"
    /\ ret' = Ret("migrate_task", r.status, 0)
    /\ CliLoop(IF r.pos = 0 THEN entries
               ELSE [entries EXCEPT ![r.pos] = TaskEntry_migrate(@)])
    /\ UNCHANGED now

migrate_task == \E index_input \in IndexInputs : migrate_task_at(index_input)

\* BulletJournalCLI.mark_habit_complete (menu action H)
mark_habit_complete_at(index_input) ==
    LET r == _get_entry_by_index(entries, index_input, "HabitEntry") IN
    /\ pc = "cli"
    /\ ret' = Ret("mark_habit_complete", r.status, 0)
    /\ CliLoop(IF r.pos = 0 THEN entries
               ELSE [entries EXCEPT
                        ![r.pos] = HabitEntry_mark_complete(@, DateOf(now))])
    /\ UNCHANGED now

mark_habit_complete ==
    \E index_input \in IndexInputs : mark_habit_complete_at(index_input)

\* BulletJournalCLI.complete_event (menu action C)
complete_event_at(index_input) ==
    LET r == _get_entry_by_index(entries, index_input, "EventEntry") IN
    /\ pc = "cli"
    /\ ret' = Ret("complete_event", r.status, 0)
    /\ CliLoop(IF r.pos = 0 THEN entries
               ELSE [entries EXCEPT ![r.pos] = EventEntry_complete(@)])
    /\ UNCHANGED now

complete_event ==
    \E index_input \in IndexInputs : complete_event_at(index_input)

\* BulletJournalCLI.quit_app (menu action Q)
quit_app ==
    /\ pc = "cli"
    /\ file' = save_entries(entries)
    /\ saved' = [done |-> TRUE, entries |-> entries]
    /\ pc' = "exited"
    /\ ret' = Ret("quit_app", "ok", 0)
    /\ shown' = <<>>
    /\ loaded' = NoLoad
    /\ UNCHANGED <<entries, now, filter_visible, sessions>>

\* _display_menu and the prompt of view_spreads: input() raises EOFError or
\* KeyboardInterrupt (end of input, Ctrl-C); nothing catches it and the
\* process ends without a save
menu_interrupted ==
    /\ pc \in {"cli", "spreads"}
    /\ pc' = "crashed"
    /\ ret' = Ret("_display_menu", "raised", 0)
    /\ shown' = <<>>
    /\ loaded' = NoLoad
    /\ UNCHANGED <<file, entries, now, filter_visible, saved, sessions>>

----------------------------------------------------------------------------
(* app.py: the spreads of view_spreads (menu action V) *)

\* the order sorted(..., key=lambda e: e.timestamp) gives the positions of
\* es: a stable ascending sort
RECURSIVE OrderAsc(_, _)
OrderAsc(es, n) ==
    IF n = 0 THEN <<>>
    ELSE LET rest == OrderAsc(es, n - 1)
             pos == Cardinality({j \in 1 .. Len(rest) :
                        es[rest[j]].timestamp <= es[n].timestamp})
         IN  SubSeq(rest, 1, pos) \o <<n>> \o SubSeq(rest, pos + 1, Len(rest))

\* self.entries.sort(key=...) in the place of sorted(self.entries, key=...)
sorted_in_place(es) ==
    LET order == OrderAsc(es, Len(es)) IN
    [all_entries_sorted |-> [i \in 1 .. Len(es) |-> i],
     entries |-> [i \in 1 .. Len(es) |-> es[order[i]]]]

\* sorted(self.entries, key=...): the new list, and self.entries, which
\* sorted() leaves as it is
sorted_by_timestamp(es) ==
    [all_entries_sorted |-> OrderAsc(es, Len(es)), entries |-> es]

\* date.weekday(): Monday is 0
weekday(d) == d % 7

\* a week that runs to the Monday after
week_of_8_days(today) ==
    LET start_of_week == today - weekday(today)
    IN  [start_of_week |-> start_of_week, end_of_week |-> start_of_week + 7]

\* the week of display_weekly_view: [start_of_week, end_of_week]
week_of(today) ==
    LET start_of_week == today - weekday(today)
    IN  [start_of_week |-> start_of_week, end_of_week |-> start_of_week + 6]

\* filtered_entries of display_weekly_view, today being `today`
weekly_filtered_entries(es, today) ==
    LET w == week_of(today)
        in_week(p) == /\ w.start_of_week <= DateOf(es[p].timestamp)
                      /\ DateOf(es[p].timestamp) <= w.end_of_week
    IN  SelectSeq(sorted_by_timestamp(es).all_entries_sorted, in_week)

\* filtered_entries of display_monthly_view: the days from the first to the
\* last of the month of `today` are the days of its year and month; the
\* grouping by day keeps the ascending order
monthly_filtered_entries(es, today) ==
    LET in_month(p) ==
            /\ YearOf(DateOf(es[p].timestamp)) = YearOf(today)
            /\ MonthOf(DateOf(es[p].timestamp)) = MonthOf(today)
    IN  SelectSeq(sorted_by_timestamp(es).all_entries_sorted, in_month)

\* habit_entries of display_habit_spread: the rows of the table
habit_entries(es) ==
    SelectSeq([i \in 1 .. Len(es) |-> i], LAMBDA p : IsHabit(es[p]))

\* BulletJournalCLI.view_spreads (menu action V): the prompt of the sub-menu
view_spreads ==
    /\ pc = "cli"
    /\ pc' = "spreads"
    /\ ret' = Ret("view_spreads", "ok", 0)
    /\ shown' = <<>>
    /\ loaded' = NoLoad
    /\ UNCHANGED <<file, entries, now, filter_visible, saved, sessions>>

\* [B]ack to Journal: view_spreads returns, and the loop of run() goes on
view_spreads_back ==
    /\ pc = "spreads"
    /\ ret' = Ret("view_spreads", "back", 0)
    /\ CliLoop(entries)
    /\ UNCHANGED now

\* what follows a spread: the prompt of the sub-menu again, the collection
\* being what the spread left
AfterSpread(es) ==
    /\ entries' = es
    /\ loaded' = NoLoad
    /\ UNCHANGED <<file, pc, now, filter_visible, saved, sessions>>

\* BulletJournalCLI.display_weekly_view (V, then W)
display_weekly_view ==
    /\ pc = "spreads"
    /\ shown' = weekly_filtered_entries(entries, DateOf(now))
    /\ ret' = Ret("display_weekly_view", "ok", 0)
    /\ AfterSpread(sorted_by_timestamp(entries).entries)

\* BulletJournalCLI.display_monthly_view (V, then M)
display_monthly_view ==
    /\ pc = "spreads"
    /\ shown' = monthly_filtered_entries(entries, DateOf(now))
    /\ ret' = Ret("display_monthly_view", "ok", 0)
    /\ AfterSpread(sorted_by_timestamp(entries).entries)

\* BulletJournalCLI.display_habit_spread (V, then H)
display_habit_spread ==
    /\ pc = "spreads"
    /\ shown' = habit_entries(entries)
    /\ ret' = Ret("display_habit_spread", "ok", 0)
    /\ AfterSpread(entries)

----------------------------------------------------------------------------
(* screens.py: the journal screen and the new-entry screen *)

\* JournalScreen.update_list: the positions of the entries listed.  The
\* filters keep the entries of the year and of the month; the stable sort
\* of the kept entries lists them as the stable sort of all entries does.
update_list(es, filter_year, filter_month) ==
    LET keep(p) ==
            /\ (filter_year # 0 => YearOf(DateOf(es[p].timestamp)) = filter_year)
            /\ (filter_month # 0 =>
                    MonthOf(DateOf(es[p].timestamp)) = filter_month)
    IN  SelectSeq(OrderDesc(es, Len(es)), keep)

\* JournalScreen._get_selected_task: [pos, status], pos the position of the
\* task returned, 0 for None ("not_found" and "wrong_type" are notified,
\* "out_of_range" is silent).  selected_index is list_view.index, -1
\* standing for None.
_get_selected_task(es, selected_index) ==
    IF selected_index = -1
    THEN [pos |-> 0, status |-> "not_found"]
    ELSE LET sorted_entries == OrderDesc(es, Len(es)) IN
         IF selected_index >= Len(sorted_entries)
         THEN [pos |-> 0, status |-> "out_of_range"]
         ELSE LET p == sorted_entries[selected_index + 1] IN
              IF ~IsTask(es[p]) THEN [pos |-> 0, status |-> "wrong_type"]
                                ELSE [pos |-> p, status |-> "ok"]

\* self.notify of _get_selected_task: the TUI reports rejections only
Notified(r) ==
    IF r.status \in {"not_found", "wrong_type"}
    THEN Ret("notify", r.status, 0) ELSE NoRet

\* list_view.index: None, or the position of a listed item
Selections == -1 .. (Len(shown) - 1)

\* the TUI application starts: it loads the store, seeds the samples when
\* the store is empty, keeps the collection in the order loaded, and mounts
\* the journal screen (on_mount)
StartTUI ==
    /\ Stopped
    /\ sessions < MaxSessions
    /\ sessions' = sessions + 1
    /\ loaded' = Load
    /\ entries' = IF Load.entries = <<>> THEN _create_sample_entries(now)
                                         ELSE Load.entries
    /\ shown' = update_list(entries', 0, 0)
    /\ filter_visible' = FALSE
    /\ pc' = "tui"
    /\ ret' = NoRet
    /\ UNCHANGED <<file, now, saved>>

\* JournalScreen.action_complete_task (key x), the selection given
action_complete_task_at(selected_index) ==
    LET r == _get_selected_task(entries, selected_index) IN
    /\ pc = "tui"
    /\ ret' = Notified(r)
    /\ entries' = IF r.pos = 0 THEN entries
                  ELSE [entries EXCEPT ![r.pos].status = Str("Complete")]
    /\ shown' = IF r.pos = 0 THEN shown ELSE update_list(entries', 0, 0)
    /\ loaded' = NoLoad
    /\ UNCHANGED <<file, pc, now, filter_visible, saved, sessions>>

action_complete_task ==
    \E selected_index \in Selections : action_complete_task_at(selected_index)

\* JournalScreen.action_migrate_task (key m)
action_migrate_task_at(selected_index) ==
    LET r == _get_selected_task(entries, selected_index) IN
    /\ pc = "tui"
    /\ ret' = Notified(r)
    /\ entries' = IF r.pos = 0 THEN entries
                  ELSE [entries EXCEPT ![r.pos].status = Str("Migrated")]
    /\ shown' = IF r.pos = 0 THEN shown ELSE update_list(entries', 0, 0)
    /\ loaded' = NoLoad
    /\ UNCHANGED <<file, pc, now, filter_visible, saved, sessions>>

action_migrate_task ==
    \E selected_index \in Selections : action_migrate_task_at(selected_index)

\* JournalScreen.action_filter_log (the Apply Filter button): the year and
\* the month chosen in the two Select widgets, 0 for "All"
action_filter_log ==
    /\ pc = "tui"
    /\ filter_visible
    /\ \E filter_year \in {0, 2026}, filter_month \in {0, 11} :
          shown' = update_list(entries, filter_year, filter_month)
    /\ ret' = NoRet
    /\ loaded' = NoLoad
    /\ UNCHANGED <<file, entries, pc, now, filter_visible, saved, sessions>>

\* JournalScreen.action_toggle_filter_view (key f)
action_toggle_filter_view ==
    /\ pc = "tui"
    /\ filter_visible' = ~filter_visible
    /\ shown' = IF ~filter_visible' THEN update_list(entries, 0, 0) ELSE shown
    /\ ret' = NoRet
    /\ loaded' = NoLoad
    /\ UNCHANGED <<file, entries, pc, now, saved, sessions>>

\* what the user enters in NewEntryScreen: the entry type, the content,
\* the signifier value and the task status
NewEntryInputs ==
    {<<"task", "milk", "*", "Pending">>, <<"task", "milk", "", "Complete">>,
     <<"event", "milk", "!", "Pending">>, <<"note", "", "*", "Pending">>}

\* NewEntryScreen.on_button_pressed (the Add Entry button)
on_button_pressed ==
    /\ pc = "tui"
    /\ now < MaxNow
    /\ Len(entries) < MaxEntries
    /\ \E inp \in NewEntryInputs :
          LET entry_type == inp[1]
              content == inp[2]
              signifier == ChosenSignifier(inp[3])
              task_status == inp[4]
          IN
          IF content = ""
          THEN UNCHANGED <<entries, now, shown>>
          ELSE /\ now' = now + 1
               /\ entries' = Append(entries,
                      IF entry_type = "task"
                      THEN TaskEntry(content, signifier, now', Str(task_status))
                      ELSE NoteEntry(content, signifier, now'))
               /\ shown' = update_list(entries', 0, 0)
    /\ ret' = NoRet
    /\ loaded' = NoLoad
    /\ UNCHANGED <<file, pc, filter_visible, saved, sessions>>

\* the TUI application quits (key q): it saves the collection
action_quit ==
    /\ pc = "tui"
    /\ file' = save_entries(entries)
    /\ saved' = [done |-> TRUE, entries |-> entries]
    /\ pc' = "exited"
    /\ shown' = <<>>
    /\ filter_visible' = FALSE
    /\ ret' = NoRet
    /\ loaded' = NoLoad
    /\ UNCHANGED <<entries, now, sessions>>

Next ==
    \/ StartCLI
    \/ Tick
    \/ add_entry
    \/ complete_task
    \/ migrate_task
    \/ mark_habit_complete
    \/ complete_event
    \/ view_spreads
    \/ view_spreads_back
    \/ display_weekly_view
    \/ display_monthly_view
    \/ display_habit_spread
    \/ quit_app
    \/ menu_interrupted
    \/ StartTUI
    \/ action_complete_task
    \/ action_migrate_task
    \/ action_filter_log
    \/ action_toggle_filter_view
    \/ on_button_pressed
    \/ action_quit

Spec == Init /\ [][Next]_vars

----------------------------------------------------------------------------
(* The repository called directly: load_entries and save_entries on the    *)
(* files a store may hold and on the collections a caller may pass          *)

\* collections holding one entry of each variant, and the empty collection
RepoCollections ==
    {<<>>} \cup
    { << NoteEntry("n", sg, 1),
         TaskEntry("t", Signifier_PRIORITY, 2, st),
         EventEntry("e", Signifier_NONE, 3, loc, done),
         HabitEntry("h", Signifier_NONE, 0, "Daily", dates) >> :
        sg \in {Signifier_EXPLORE, Signifier_NONE},
        st \in TaskStatus \cup {Str("Pending")},
        loc \in {None, Some("gym")},
        done \in BOOLEAN,
        dates \in {<<date_isoformat(1)>>,
                   <<date_isoformat(1), date_isoformat(0)>>} }

RepoInit ==
    /\ file \in InitFiles
    /\ entries \in RepoCollections
    /\ pc = "repo"
    /\ now = TicksPerDay + 1
    /\ shown = <<>>
    /\ filter_visible = FALSE
    /\ ret = NoRet
    /\ loaded = NoLoad
    /\ saved = [done |-> FALSE, entries |-> <<>>]
    /\ sessions = 0

\* entries = repository.load_entries()
RepoLoad ==
    /\ pc = "repo"
    /\ loaded' = Load
    /\ entries' = IF Load.raised THEN entries ELSE Load.entries
    /\ ret' = Ret("load_entries", IF Load.raised THEN "raised" ELSE "ok", 0)
    /\ UNCHANGED <<file, pc, now, shown, filter_visible, saved, sessions>>

\* repository.save_entries(entries), the file system doing `fault`
RepoSaveUnder(fault) ==
    LET r == save_entries_io(file, entries, fault) IN
    /\ pc = "repo"
    /\ file' = r.file
    /\ saved' = IF r.raised THEN [done |-> FALSE, entries |-> <<>>]
                            ELSE [done |-> TRUE, entries |-> entries]
    /\ ret' = Ret("save_entries", IF r.raised THEN "raised" ELSE "ok", 0)
    /\ loaded' = NoLoad
    /\ UNCHANGED <<entries, pc, now, shown, filter_visible, sessions>>

RepoSave == \E fault \in SaveFaults : RepoSaveUnder(fault)

RepoNext ==
    \/ RepoLoad
    \/ RepoSave

SpecRepo == RepoInit /\ [][RepoNext]_vars

----------------------------------------------------------------------------
(* The entry model called directly: a habit and a task, and the methods    *)
(* of entry.py applied to them                                             *)

\* the dates of a set of days, most recent first, as mark_complete keeps them
RECURSIVE DatesDesc(_)
DatesDesc(S) ==
    IF S = {} THEN <<>>
    ELSE LET m == CHOOSE d \in S : \A x \in S : x <= d
         IN  <<date_isoformat(m)>> \o DatesDesc(S \ {m})

ApiInit ==
    /\ file = File("missing", <<>>)
    /\ \E S \in SUBSET Days, st \in TaskStatus :
          entries = << HabitEntry("h", Signifier_NONE, 0, "Daily", DatesDesc(S)),
                       TaskEntry("t", Signifier_NONE, 0, st) >>
    /\ pc = "api"
    /\ now = TicksPerDay + 1
    /\ shown = <<>>
    /\ filter_visible = FALSE
    /\ ret = NoRet
    /\ loaded = NoLoad
    /\ saved = [done |-> FALSE, entries |-> <<>>]
    /\ sessions = 0

ApiFrame == UNCHANGED <<file, pc, now, shown, filter_visible, loaded, saved,
                        sessions>>

\* habit.mark_complete(completion_date)
mark_complete_on(i, d) ==
    /\ pc = "api"
    /\ IsHabit(entries[i])
    /\ entries' = [entries EXCEPT ![i] = HabitEntry_mark_complete(@, d)]
    /\ ret' = Ret("mark_complete",
                  IF Contains(entries[i].completed_dates, date_isoformat(d))
                  THEN "present" ELSE "ok", d)
    /\ ApiFrame

mark_complete ==
    \E i \in 1 .. Len(entries), d \in Days : mark_complete_on(i, d)

\* habit.get_streak()
streak ==
    /\ pc = "api"
    /\ \E i \in 1 .. Len(entries) :
          /\ IsHabit(entries[i])
          /\ ret' = Ret("get_streak", "ok", get_streak(entries[i], DateOf(now)))
    /\ UNCHANGED entries
    /\ ApiFrame

\* task.complete()
complete ==
    /\ pc = "api"
    /\ \E i \in 1 .. Len(entries) :
          /\ IsTask(entries[i])
          /\ entries' = [entries EXCEPT ![i] = TaskEntry_complete(@)]
    /\ ret' = Ret("complete", "ok", 0)
    /\ ApiFrame

\* task.migrate()
migrate ==
    /\ pc = "api"
    /\ \E i \in 1 .. Len(entries) :
          /\ IsTask(entries[i])
          /\ entries' = [entries EXCEPT ![i] = TaskEntry_migrate(@)]
    /\ ret' = Ret("migrate", "ok", 0)
    /\ ApiFrame

ApiNext ==
    \/ Tick
    \/ mark_complete
    \/ streak
    \/ complete
    \/ migrate

SpecEntry == ApiInit /\ [][ApiNext]_vars

----------------------------------------------------------------------------
(* The spreads on journals that span two weeks: the CLI at the prompt of   *)
(* view_spreads, the entries dated around the week of Monday 2026-12-07    *)

\* the Sunday before, the Monday, the Thursday and the Sunday of the week,
\* and the Monday after
ViewDays == {6, 7, 10, 13, 14}

\* the start of each of these days, and a later time on the Thursday
ViewTimes == {d * TicksPerDay : d \in ViewDays} \cup {10 * TicksPerDay + 1}

ViewInit ==
    /\ file = File("missing", <<>>)
    /\ \E t1, t2, t3 \in ViewTimes :
          entries = _sort_entries(
              << NoteEntry("n", Signifier_NONE, t1),
                 TaskEntry("t", Signifier_PRIORITY, t2, TaskStatus_INCOMPLETE),
                 HabitEntry("h", Signifier_NONE, t3, "Daily", <<>>) >>)
    /\ pc = "spreads"
    /\ now \in {d * TicksPerDay : d \in ViewDays}
    /\ shown = <<>>
    /\ filter_visible = FALSE
    /\ ret = NoRet
    /\ loaded = NoLoad
    /\ saved = [done |-> FALSE, entries |-> <<>>]
    /\ sessions = 1

ViewNext ==
    \/ display_weekly_view
    \/ display_monthly_view
    \/ display_habit_spread

SpecView == ViewInit /\ [][ViewNext]_vars

----------------------------------------------------------------------------
(* Properties of the repository, under SpecRepo and Spec *)

\* a load_entries call has just returned, of the file loaded.from
JustLoaded == ret.op = "load_entries"

\* the load follows a save: loaded.from is the file written from loaded.saved
LoadedAfterSave == JustLoaded /\ loaded.saved.done

\* one entry of each variant, the Habit with completed dates
OneOfEach(es) ==
    /\ Len(es) = 4
    /\ \A c \in class_map \ {"JournalEntry"} : \E i \in 1 .. 4 : es[i].cls = c
    /\ \A i \in 1 .. 4 : IsHabit(es[i]) => es[i].completed_dates # <<>>

\* C1: a collection of one entry of each variant, saved and loaded again,
\* is equal to the original field for field
C1_RoundTrip ==
    (LoadedAfterSave /\ OneOfEach(loaded.saved.entries))
        => loaded.entries = loaded.saved.entries

\* a session has just started from the file a previous session saved
StartedAfterSave == pc \in {"cli", "tui", "crashed"} /\ loaded.saved.done

\* C2: save and reload leave the status and the signifier of every Task as
\* they were: a never-transitioned Task is reloaded Incomplete, a completed
\* Task is reloaded Complete
C2_StatusSurvivesReload ==
    StartedAfterSave =>
        /\ Len(loaded.entries) = Len(loaded.saved.entries)
        /\ \A i \in 1 .. Len(loaded.entries) :
              IsTask(loaded.saved.entries[i]) =>
                  /\ IsTask(loaded.entries[i])
                  /\ loaded.entries[i].status = loaded.saved.entries[i].status
                  /\ loaded.entries[i].signifier =
                         loaded.saved.entries[i].signifier

\* C3: the load of a missing file returns the empty collection, and a load
\* after a save returns exactly the entries saved, the empty collection
\* after a save of the empty collection
C3_LoadReturnsLastSave ==
    JustLoaded =>
        /\ (loaded.from.kind = "missing" => loaded.entries = <<>>)
        /\ (loaded.saved.done => loaded.entries = loaded.saved.entries)

\* the file is missing, empty, or structurally corrupt
Unreadable(f) == f.kind \in {"missing", "empty", "invalid", "scalar", "object"}

\* C4: load_entries never raises, and returns the empty collection when the
\* file is missing, empty or structurally corrupt
C4_LoadNeverRaises ==
    JustLoaded =>
        /\ ~loaded.raised
        /\ (Unreadable(loaded.from) => loaded.entries = <<>> /\ entries = <<>>)

\* a load of valid JSON whose top level is not a sequence of records
C4_Witness ==
    /\ JustLoaded
    /\ loaded.from.kind \in {"scalar", "object"}
    /\ entries = <<>>

\* the record is as the encoder writes it
WellFormed(rec) == rec \notin OffendingRecords

\* the values of the members of the two enumerations
SignifierValues == {EnumValue(m) : m \in Signifier}
TaskStatusValues == {EnumValue(m) : m \in TaskStatus}

\* the enumerated fields of the entry hold values of their enumerations
HoldsEnumValues(e) ==
    /\ EnumValue(e.signifier) \in SignifierValues
    /\ (IsTask(e) => EnumValue(e.status) \in TaskStatusValues)

\* C5: of a file of several records, one of which cannot be decoded, the
\* load returns every well-formed record in order, the offending record
\* skipped or given defaults, and raises nothing
C5_LoadResilience ==
    (JustLoaded /\ loaded.from.kind = "list") =>
        LET items == loaded.from.items
            wf == SelectSeq(items, WellFormed)
            enc == [i \in 1 .. Len(loaded.entries) |->
                        CustomEncoder_default(loaded.entries[i])]
        IN  /\ ~loaded.raised
            /\ \/ enc = wf
               \/ /\ Len(enc) = Len(items)
                  /\ \A i \in 1 .. Len(items) :
                        IF WellFormed(items[i])
                        THEN enc[i] = items[i]
                        ELSE HoldsEnumValues(loaded.entries[i])

----------------------------------------------------------------------------
(* Properties of the entry model, under SpecEntry *)

\* get_streak has just returned ret.val for the habit, today being Today
JustStreak == ret.op = "get_streak"

Today == DateOf(now)

\* the days the habit is completed on
CompletedDays ==
    {date_fromisoformat(entries[1].completed_dates[i]) :
        i \in 1 .. Len(entries[1].completed_dates)}

RECURSIVE RunEndingAt(_, _)
RunEndingAt(S, d) == IF d \notin S THEN 0 ELSE 1 + RunEndingAt(S, d - 1)

\* C7: with today completed, the streak is the length of the maximal run of
\* consecutive completed days ending today; days after today do not count
C7_StreakIsRunEndingToday ==
    (JustStreak /\ Today \in CompletedDays)
        => ret.val = RunEndingAt(CompletedDays, Today)

\* C8: complete sets the status of the task to Complete from any prior
\* status and leaves the rest alone; on a completed task it changes nothing,
\* and a second complete changes nothing more
C8_CompleteIdempotent ==
    [][complete =>
          /\ entries'[2].status = TaskStatus_COMPLETE
          /\ entries' = [entries EXCEPT ![2].status = TaskStatus_COMPLETE]
          /\ (entries[2].status = TaskStatus_COMPLETE => entries' = entries)
          /\ TaskEntry_complete(entries'[2]) = entries'[2]
          /\ ret'.status = "ok"]_vars

\* complete has been applied to the task, which is Complete
C8_Witness ==
    /\ ret.op = "complete"
    /\ entries[2].status = TaskStatus_COMPLETE

\* no date occurs twice in the completed dates of a habit
NoDuplicateDates ==
    \A k \in 1 .. Len(entries) :
        IsHabit(entries[k]) =>
            \A i, j \in 1 .. Len(entries[k].completed_dates) :
                entries[k].completed_dates[i] = entries[k].completed_dates[j]
                    => i = j

\* C9: mark_complete adds the day only when it is absent: no date is ever
\* held twice, a marked day is held afterwards with the days held before,
\* and marking a day already held changes nothing
C9_MarkOnlyIfAbsent ==
    /\ []NoDuplicateDates
    /\ [][\A d \in Days :
            mark_complete_on(1, d) =>
                LET before == entries[1].completed_dates
                    after == entries'[1].completed_dates
                IN  /\ {after[i] : i \in 1 .. Len(after)} =
                           {before[i] : i \in 1 .. Len(before)}
                               \cup {date_isoformat(d)}
                    /\ (Contains(before, date_isoformat(d))
                           => entries' = entries)
                    /\ HabitEntry_mark_complete(entries'[1], d) = entries'[1]
         ]_vars

\* a day already held has been marked again
C9_Witness ==
    /\ ret.op = "mark_complete"
    /\ ret.status = "present"
    /\ Len(entries[1].completed_dates) >= 2

----------------------------------------------------------------------------
(* Properties of the sessions, under Spec *)

\* the number typed at the CLI prompt resolves to no entry, or to an entry
\* that is not of the class the action is about
CliUnresolved(index_input, cls) ==
    \/ index_input = <<>>
    \/ index_input[1] \notin 1 .. Len(entries)
    \/ entries[index_input[1]].cls # cls

\* the selection of the TUI list resolves to no entry, or to an entry that
\* is not a task
TuiUnresolved(selected_index) ==
    \/ selected_index \notin 0 .. (Len(entries) - 1)
    \/ ~IsTask(entries[OrderDesc(entries, Len(entries))[selected_index + 1]])

\* the collection or the file is not as it was
Mutated == entries' # entries \/ file' # file

\* the step reports that the action was carried out
Accepted == ret'.status = "ok"

\* C10: an action given an index that resolves to no entry, or to an entry
\* of the wrong kind, is rejected and changes neither the entry nor the
\* collection: no step of such an action mutates or reports success
C10_RejectedMutatesNothing ==
    [][/\ \A index_input \in IndexInputs :
            /\ ((Mutated \/ Accepted) /\ CliUnresolved(index_input, "TaskEntry"))
                   => ~complete_task_at(index_input)
            /\ ((Mutated \/ Accepted) /\ CliUnresolved(index_input, "TaskEntry"))
                   => ~migrate_task_at(index_input)
            /\ ((Mutated \/ Accepted) /\ CliUnresolved(index_input, "EventEntry"))
                   => ~complete_event_at(index_input)
            /\ ((Mutated \/ Accepted) /\ CliUnresolved(index_input, "HabitEntry"))
                   => ~mark_habit_complete_at(index_input)
       /\ \A selected_index \in Selections :
            /\ (Mutated /\ TuiUnresolved(selected_index))
                   => ~action_complete_task_at(selected_index)
            /\ (Mutated /\ TuiUnresolved(selected_index))
                   => ~action_migrate_task_at(selected_index)
      ]_vars

\* complete_task was given the number of an entry that is not a task
C10_Witness ==
    /\ ret.op = "complete_task"
    /\ ret.status = "wrong_type"
    /\ pc = "cli"

----------------------------------------------------------------------------
(* Properties of the spreads, under SpecView and Spec *)

\* the Monday of the week of day d, day 0 being a Monday
MondayOf(d) == CHOOSE m \in (d - 6) .. d : m % 7 = 0

\* the day the entry at position p is dated
EntryDay(p) == DateOf(entries[p].timestamp)

\* C11: the weekly view lists exactly the entries dated from the Monday to
\* the Sunday of the week of the reference date, each once, in ascending
\* order of timestamp
C11_WeeklyWindow ==
    ret.op = "display_weekly_view" =>
        LET monday == MondayOf(Today) IN
        /\ {shown[i] : i \in 1 .. Len(shown)} =
               {p \in 1 .. Len(entries) :
                    monday <= EntryDay(p) /\ EntryDay(p) <= monday + 6}
        /\ \A i, j \in 1 .. Len(shown) :
               i < j => /\ shown[i] # shown[j]
                        /\ entries[shown[i]].timestamp
                               <= entries[shown[j]].timestamp

\* the weekly view lists an entry of the Monday and one of the Sunday, and
\* leaves out an entry of the Monday after
C11_Witness ==
    /\ ret.op = "display_weekly_view"
    /\ \E i, j \in 1 .. Len(shown), k \in 1 .. Len(entries) :
          /\ EntryDay(shown[i]) = MondayOf(Today)
          /\ EntryDay(shown[j]) = MondayOf(Today) + 6
          /\ EntryDay(k) = MondayOf(Today) + 7
          /\ \A n \in 1 .. Len(shown) : shown[n] # k

----------------------------------------------------------------------------
(* Properties of the sessions and the store, under Spec *)

\* the first session has quit and saved
FirstSessionSaved == sessions = 1 /\ pc = "exited" /\ saved.done

\* the rank of a record of the first session in the order of insertion:
\* the samples in the order they are created in, then the entries added,
\* in the order of their creation times
InsertionRank(rec) ==
    LET samples == _create_sample_entries(0) IN
    IF \E i \in 1 .. Len(samples) : samples[i].content = rec.content
    THEN CHOOSE i \in 1 .. Len(samples) : samples[i].content = rec.content
    ELSE Len(samples) + 1 + datetime_fromisoformat(rec.timestamp)

\* C12: the records of the snapshot file are in the order the entries were
\* inserted in, the display order never being persisted: after a first
\* session, the samples in their order, then the entries added
C12_FileInInsertionOrder ==
    FirstSessionSaved =>
        \A i, j \in 1 .. Len(file.items) :
            i < j => InsertionRank(file.items[i]) < InsertionRank(file.items[j])

\* b is the entry a, whatever its variant fields hold
SameEntry(a, b) ==
    /\ a.cls = b.cls
    /\ a.content = b.content
    /\ a.timestamp = b.timestamp

\* e is in the collection es
Present(e, es) == \E j \in 1 .. Len(es) : SameEntry(e, es[j])

\* C13: quitting saves the collection of the session: an entry appended
\* stays in the collection, the quit saves the collection as it is, and
\* every entry of it is in the collection the next load returns
C13_QuitSaves ==
    /\ [](StartedAfterSave =>
            \A i \in 1 .. Len(loaded.saved.entries) :
                Present(loaded.saved.entries[i], loaded.entries))
    /\ [][/\ (add_entry \/ on_button_pressed) =>
                \A i \in 1 .. Len(entries) : Present(entries[i], entries')
          /\ (quit_app \/ action_quit) =>
                /\ saved'.done /\ saved'.entries = entries
                /\ file'.kind = "list" /\ Len(file'.items) = Len(entries)
         ]_vars

\* a session has started from a file that holds an entry added before the
\* quit of the session before
C13_Witness ==
    /\ StartedAfterSave
    /\ \E j \in 1 .. Len(loaded.entries) : loaded.entries[j].content = "milk"

----------------------------------------------------------------------------
(* Properties of the repository under failures of the file system, under   *)
(* SpecRepo                                                                *)

\* C14: a failure of the file system during a save is raised to the caller
\* and the save is not reported as done; a failure during a load gives the
\* empty collection and raises nothing
C14_SaveRaisesLoadDegrades ==
    [][/\ \A fault \in SaveFaults \ {"none"} :
            RepoSaveUnder(fault) => ret'.status = "raised" /\ ~saved'.done
       /\ (RepoLoad /\ file.kind = "unreadable") =>
            /\ ~loaded'.raised
            /\ ret'.status = "ok"
            /\ loaded'.entries = <<>> /\ entries' = <<>>
      ]_vars

\* a save has failed on a collection that is not empty
C14_Witness ==
    /\ ret.op = "save_entries"
    /\ ret.status = "raised"
    /\ entries # <<>>

\* C17: after a save, returned or raised, the file holds the complete
\* encoding of the collection passed or the snapshot it held before
C17_SaveAllOrNothing ==
    [][RepoSave => (file' = save_entries(entries) \/ file' = file)]_vars

----------------------------------------------------------------------------
(* Properties of the start of a session, under Spec                        *)

\* a and b hold the same entries, each as many times, in any order
SameMembers(a, b) ==
    /\ Len(a) = Len(b)
    /\ \A i \in 1 .. Len(a) :
          Cardinality({j \in 1 .. Len(a) : a[j] = a[i]})
            = Cardinality({j \in 1 .. Len(b) : b[j] = a[i]})

IsWelcome(e) == IsNote(e) /\ e.content = _create_sample_entries(0)[1].content

\* C15: a session that loads nothing starts with the sample entries, the
\* Welcome note first; a session that loads entries starts with exactly
\* those entries and no sample
C15_SeededOnlyWhenEmpty ==
    [][(sessions' # sessions /\ (StartCLI \/ StartTUI)) =>
          IF loaded'.entries = <<>>
          THEN /\ entries' # <<>>
               /\ SameMembers(entries', _create_sample_entries(now))
               /\ IsWelcome(entries'[1])
          ELSE SameMembers(entries', loaded'.entries)
      ]_vars

\* a second session has started on the entries the first one saved, the
\* samples and one more
C15_Witness ==
    /\ sessions = 2
    /\ pc \in {"cli", "tui"}
    /\ loaded.entries # <<>>
    /\ Len(entries) = Len(_create_sample_entries(0)) + 1
    /\ \E i \in 1 .. Len(entries) : IsWelcome(entries[i])

----------------------------------------------------------------------------
(* Properties of the kind of an entry, under Spec                          *)

\* the four variants of an entry
Variants == class_map \ {"JournalEntry"}

\* es and fs hold entries of the same classes, position by position
SameClasses(es, fs) ==
    /\ Len(es) = Len(fs)
    /\ \A i \in 1 .. Len(es) : es[i].cls = fs[i].cls

\* fs is es with one entry more, the classes of the others as they were
OneMore(es, fs) ==
    /\ Len(fs) = Len(es) + 1
    /\ \E k \in 1 .. Len(fs) :
          \A i \in 1 .. Len(es) :
              fs[IF i < k THEN i ELSE i + 1].cls = es[i].cls

\* C16: every entry is of one of the four variants and its kind tag is the
\* one of its class, never an attribute of its own; no operation or view
\* changes the class of an entry, a save writes each entry under its class
\* and the load that follows returns each entry in the class it was saved in
C16_KindNeverChanges ==
    /\ [](\A i \in 1 .. Len(entries) :
              /\ entries[i].cls \in Variants
              /\ "type" \notin DOMAIN entries[i]
              /\ EntryType(entries[i]) \o "Entry" = entries[i].cls)
    /\ [][/\ (sessions' = sessions /\ Len(entries') = Len(entries)) =>
                SameClasses(entries, entries')
          /\ (sessions' = sessions /\ Len(entries') # Len(entries)) =>
                OneMore(entries, entries')
          /\ (pc' = "exited" /\ pc # "exited") =>
                /\ Len(file'.items) = Len(entries)
                /\ \A i \in 1 .. Len(entries) :
                      file'.items[i]["_type"] = entries[i].cls
          /\ (sessions' # sessions /\ saved.done) =>
                /\ SameClasses(saved.entries, loaded'.entries)
                /\ \A c \in Variants :
                      Cardinality({i \in 1 .. Len(entries') :
                                      entries'[i].cls = c})
                        = Cardinality({i \in 1 .. Len(saved.entries) :
                                          saved.entries[i].cls = c})
         ]_vars

\* a second session runs on the Event and the Habit that the first one
\* completed and saved
C16_Witness ==
    /\ sessions = 2
    /\ loaded.saved.done
    /\ \E i \in 1 .. Len(entries) : IsEvent(entries[i]) /\ entries[i].is_completed
    /\ \E i \in 1 .. Len(entries) :
          IsHabit(entries[i]) /\ entries[i].completed_dates # <<>>

----------------------------------------------------------------------------
(* Properties of the frame of the mutating operations, under Spec          *)

\* e and f are the same entry but for the field named
SameButField(e, f, field) ==
    /\ DOMAIN e = DOMAIN f
    /\ \A k \in (DOMAIN e) \ {field} : e[k] = f[k]

\* the step changes at most one entry of the collection, and of it only the
\* field named: it adds, removes and moves no entry and leaves the file
ChangesOnly(field) ==
    /\ file' = file
    /\ Len(entries') = Len(entries)
    /\ \A i \in 1 .. Len(entries) : SameButField(entries[i], entries'[i], field)
    /\ Cardinality({i \in 1 .. Len(entries) : entries'[i] # entries[i]}) <= 1

\* C18: completing or migrating a Task changes only its status, completing
\* an Event only its completion flag, marking a Habit only its completed
\* dates; every other entry, the membership and the order of the collection
\* and the file stay as they are.  The file changes only in a step that
\* saves, so a session that ends without one leaves the file as it was
C18_OnlyDesignatedField ==
    [][/\ (ret'.op \in {"complete_task", "migrate_task"}
           \/ action_complete_task \/ action_migrate_task) =>
             ChangesOnly("status")
       /\ ret'.op = "complete_event" => ChangesOnly("is_completed")
       /\ ret'.op = "mark_habit_complete" => ChangesOnly("completed_dates")
       /\ file' # file => (quit_app \/ action_quit)
       /\ (pc' = "crashed" /\ pc # "crashed") => file' = file
      ]_vars

\* a session has migrated a Task and marked a Habit and then ended without
\* a save: the file is as it was when the session started
C18_Witness ==
    /\ pc = "crashed"
    /\ ret.op = "_display_menu"
    /\ file = File("missing", <<>>)
    /\ \E i \in 1 .. Len(entries) :
          IsTask(entries[i]) /\ entries[i].status = TaskStatus_MIGRATED
    /\ \E i \in 1 .. Len(entries) :
          IsHabit(entries[i]) /\ entries[i].completed_dates # <<>>

----------------------------------------------------------------------------
(* Properties of the frame of the spreads, under SpecView                  *)

\* C19: the weekly view, the monthly view and the habit grid change nothing
\* of the collection: the same entries in the same order with the same
\* fields after as before, and the file as it was
C19_ViewsReadOnly ==
    [][(display_weekly_view \/ display_monthly_view \/ display_habit_spread)
          => (entries' = entries /\ file' = file)]_vars

\* the monthly view lists two entries oldest first, of a collection that is
\* held newest first
C19_Witness ==
    /\ ret.op = "display_monthly_view"
    /\ Len(shown) >= 2
    /\ entries[shown[1]].timestamp < entries[shown[2]].timestamp
    /\ shown[1] > shown[2]

----------------------------------------------------------------------------
(* Properties of the enum fields of a loaded entry, under SpecRepo         *)

\* C20: every entry a load returns holds a member of Signifier as its
\* signifier and, when it is a Task, a member of TaskStatus as its status
C20_LoadedEnumsAreMembers ==
    JustLoaded =>
        \A i \in 1 .. Len(loaded.entries) :
            /\ loaded.entries[i].signifier \in Signifier
            /\ IsTask(loaded.entries[i]) =>
                   loaded.entries[i].status \in TaskStatus

----------------------------------------------------------------------------
(* Properties of migrate, under SpecEntry                                  *)

\* C21: migrate sets the status of the task to Migrated whatever the status
\* was, Complete included, and is never rejected; complete applied to a
\* migrated task sets it to Complete again
C21_MigrateFromAnyStatus ==
    [][/\ migrate =>
            /\ entries[2].status \in TaskStatus
            /\ entries'[2].status = TaskStatus_MIGRATED
            /\ entries' = [entries EXCEPT ![2].status = TaskStatus_MIGRATED]
            /\ ret'.status = "ok"
       /\ (complete /\ entries[2].status = TaskStatus_MIGRATED) =>
            entries'[2].status = TaskStatus_COMPLETE
       /\ \A st \in TaskStatus :
            TaskEntry_migrate([entries[2] EXCEPT !.status = st]).status
                = TaskStatus_MIGRATED
      ]_vars

\* migrate has been applied to the task, which is Migrated
C21_Witness ==
    /\ ret.op = "migrate"
    /\ entries[2].status = TaskStatus_MIGRATED

----------------------------------------------------------------------------
(* Properties of the status of a Task in a session, under Spec             *)

\* C22: in every state of a session the status of every Task of the
\* collection is one of the five members of TaskStatus
C22_StatusIsTaskStatus ==
    \A i \in 1 .. Len(entries) :
        IsTask(entries[i]) => entries[i].status \in TaskStatus

----------------------------------------------------------------------------
(* Properties of the selection in the journal screen, under Spec           *)

\* C23: for every list on the journal screen, filtered or not, the entry
\* _get_selected_task resolves for the index i is the i-th entry listed:
\* that entry when it is a Task, none when it is not
C23_SelectedIsShown ==
    pc = "tui" =>
        \A selected_index \in 0 .. (Len(shown) - 1) :
            LET r == _get_selected_task(entries, selected_index)
                listed == shown[selected_index + 1]
            IN  IF IsTask(entries[listed])
                THEN r.status = "ok" /\ r.pos = listed
                ELSE r.status = "wrong_type" /\ r.pos = 0

====
